---- MODULE Spec2Model ----
EXTENDS Integers, Sequences, FiniteSets, TLC

(***************************************************************************)
(* Model of hook.py: the Cloudflare DNS-01 hook.                           *)
(* Three sub-machines share one variable tuple:                            *)
(*   - the batch machine: create_all_txt_records / delete_all_txt_records  *)
(*     with _get_zone_id, _get_txt_record_id, create_txt_record,           *)
(*     delete_txt_record and the propagation loop;                         *)
(*   - the process machine: module-level CF_HEADERS initialisation and     *)
(*     main() dispatch to the notification handlers;                       *)
(*   - the resolver machine: _has_dns_propagated on a TXT answer.          *)
(***************************************************************************)

\* ---------------- bounds ----------------
MaxBatch == 2
MaxArgs == 7
MaxTokLen == 3
MaxCredLen == 3
MaxRdatas == 2
MaxStrings == 2

\* ---------------- program constants ----------------
SettleTime == 10
PollBackoff == 30

\* ---------------- generic helpers ----------------
Min(S) == CHOOSE x \in S : \A y \in S : x <= y

RECURSIVE FlatCat(_)
FlatCat(s) == IF s = <<>> THEN <<>> ELSE Head(s) \o FlatCat(Tail(s))

RECURSIVE SortById(_)
SortById(S) == IF S = {} THEN <<>>
               ELSE LET m == CHOOSE r \in S : \A q \in S : r.id <= q.id
                    IN <<m>> \o SortById(S \ {m})

\* ---------------- UTF-8 (bytes.decode('utf-8') / str.encode) ----------------
\* Decodes a byte sequence; result [ok |-> BOOLEAN, cps |-> code points].
RECURSIVE Utf8Decode(_)
Utf8Decode(b) ==
  IF b = <<>> THEN [ok |-> TRUE, cps |-> <<>>]
  ELSE IF b[1] < 128
       THEN LET r == Utf8Decode(Tail(b))
            IN [ok |-> r.ok, cps |-> <<b[1]>> \o r.cps]
  ELSE IF b[1] >= 194 /\ b[1] <= 223 /\ Len(b) >= 2 /\ b[2] >= 128 /\ b[2] <= 191
       THEN LET r == Utf8Decode(Tail(Tail(b)))
            IN [ok |-> r.ok, cps |-> <<(b[1] - 192) * 64 + (b[2] - 128)>> \o r.cps]
  ELSE [ok |-> FALSE, cps |-> <<>>]

RECURSIVE Utf8Encode(_)
Utf8Encode(c) ==
  IF c = <<>> THEN <<>>
  ELSE IF Head(c) < 128 THEN <<Head(c)>> \o Utf8Encode(Tail(c))
  ELSE <<192 + (Head(c) \div 64), 128 + (Head(c) % 64)>> \o Utf8Encode(Tail(c))

\* ---------------- _has_dns_propagated (hook.py 54-70) ----------------
DnsExceptions == {"Timeout", "NXDOMAIN", "NoAnswer", "NoNameservers"}

\* a resolver outcome: [kind |-> "answer", rdatas |-> <<strings, ...>>]
\* or [kind |-> <exception name>, rdatas |-> <<>>]
Answer(rds) == [kind |-> "answer", rdatas |-> rds]
Raised(e) == [kind |-> e, rdatas |-> <<>>]

RECURSIVE ScanStrs(_, _, _)
ScanStrs(strs, token, m) ==
  IF m > Len(strs) THEN "false"
  ELSE LET d == Utf8Decode(strs[m])
       IN IF ~d.ok THEN "raise"
          ELSE IF d.cps = token THEN "true"
          ELSE ScanStrs(strs, token, m + 1)

RECURSIVE LoopRdatasShort(_, _, _)
LoopRdatasShort(rdatas, token, n) ==
  IF n > Len(rdatas) THEN "false"
  ELSE LET r == ScanStrs(rdatas[n], token, 1)
       IN IF r = "false" THEN LoopRdatasShort(rdatas, token, n + 1) ELSE r

\* one iteration of "for rdata in dns_response": the list comprehension
\* decodes every string of the rdata, raising on the first undecodable one
RECURSIVE LoopRdatas(_, _, _)
LoopRdatas(rdatas, token, n) ==
  IF n > Len(rdatas) THEN "false"
  ELSE LET strs == rdatas[n]
           dec == [m \in 1..Len(strs) |-> Utf8Decode(strs[m])]
       IN IF \E m \in 1..Len(strs) : ~dec[m].ok THEN "raise"
          ELSE IF \E m \in 1..Len(strs) : dec[m].cps = token THEN "true"
          ELSE LoopRdatas(rdatas, token, n + 1)

HasDnsPropagated(resp, token) ==
  IF resp.kind \in DnsExceptions THEN "false" ELSE LoopRdatas(resp.rdatas, token, 1)

\* ---------------- provider / batch data ----------------
Contexts == {"c1", "c2"}
HeaderChoices == {<<"c1">>, <<"c1", "c2">>}
PublicSuffixes == {"com"}
Domains == {<<"ex", "com">>, <<"www", "ex", "com">>, <<>>}
Zones == {<<"ex", "com">>}
Tokens == {<<97>>, <<98>>}
Payload == "payload"
Statuses == {200, 403, 404}
NoneId == 0

\* get_fld('http://' + domain): registrable domain, raises when there is none
FldOk(d) == Len(d) >= 2 /\ d[Len(d)] \in PublicSuffixes
Fld(d) == SubSeq(d, Len(d) - 1, Len(d))

RecName(d) == <<"_acme-challenge">> \o d

Triples == {<<d, Payload, t>> : d \in Domains, t \in Tokens}
ArgLists == {FlatCat(s) : s \in UNION {[1..n -> Triples] : n \in 0..MaxBatch}}
InitRecordChoices == {{}, {[id |-> 1, name |-> RecName(<<"ex", "com">>), content |-> <<97>>]}}

NoFail == [kind |-> "none", status |-> 0, ctx |-> 0, at |-> 0]

VARIABLES
  headers, zoneAcc, op, args, records, initRecs, known, nextId, dnsVis,
  pc, i, k, auth, zone, rid, reqs, lookups, doneOps, settled, polled, hits,
  sleepDur, fail, settleEnv,
  env, argv, cfHeaders, stage, exitCode, exitAt,
  resp, qtoken, qresult

bvars == <<headers, zoneAcc, op, args, records, initRecs, known, nextId, dnsVis,
           pc, i, k, auth, zone, rid, reqs, lookups, doneOps, settled, polled,
           hits, sleepDur, fail, settleEnv>>
pvars == <<env, argv, cfHeaders, stage, exitCode, exitAt>>
dvars == <<resp, qtoken, qresult>>
vars == <<bvars, pvars, dvars>>

NArgs == Len(args) \div 3
Dom(j) == args[3 * (j - 1) + 1]
Tok(j) == args[3 * (j - 1) + 3]

ZoneFoundBad(a, z) == TRUE

\* requests.get(zones?name=tld) answered 200: "if r:" on the result list
ZoneFound(a, z) == z \in zoneAcc[a]

LookupBad(name, token) == NoneId

LookupNameOnly(name, token) ==
  LET ms == {r \in records : r.name = name}
  IN IF ms = {} THEN NoneId ELSE Min({r.id : r \in ms})

\* _get_txt_record_id on a 200 answer: result[0]['id'] or None
Lookup(name, token) ==
  LET ms == {r \in records : r.name = name /\ r.content = token}
  IN IF ms = {} THEN NoneId ELSE Min({r.id : r \in ms})

\* the TXT answer a resolver gives for name
Resolve(name) ==
  LET vis == {r \in records : r.id \in dnsVis /\ r.name = name}
  IN IF vis = {} THEN Raised("NXDOMAIN")
     ELSE Answer([n \in 1..Cardinality(vis) |-> <<Utf8Encode(SortById(vis)[n].content)>>])

PropagatedNowBad(j) == FALSE

PropagatedNow(j) == HasDnsPropagated(Resolve(RecName(Dom(j))), Tok(j)) = "true"

\* ---------------- defaults of the other sub-machines ----------------
\* an environment variable: unset, or set to a string of characters
Unset == [set |-> FALSE, val |-> <<>>]
SetTo(str) == [set |-> TRUE, val |-> str]
PDefaults == /\ env = [tok |-> Unset, email |-> Unset, key |-> Unset]
             /\ argv = <<>> /\ cfHeaders = <<>> /\ stage = "idle"
             /\ exitCode = 0 /\ exitAt = "none"
DDefaults == /\ resp = Raised("Timeout") /\ qtoken = <<>> /\ qresult = "none"

\* int(str) for a string of sign and digit characters (ValueError otherwise)
DigitChars == <<"0", "1", "2", "3", "4", "5", "6", "7", "8", "9">>
DigitVal(c) == CHOOSE n \in 0..9 : DigitChars[n + 1] = c
RECURSIVE DigitsVal(_, _)
DigitsVal(str, acc) == IF str = <<>> THEN acc
                       ELSE DigitsVal(Tail(str), acc * 10 + DigitVal(Head(str)))
ParseInt(str) ==
  LET neg == str # <<>> /\ str[1] = "-"
      body == IF str # <<>> /\ str[1] \in {"-", "+"} THEN Tail(str) ELSE str
  IN IF body = <<>> \/ \E n \in 1..Len(body) : body[n] \notin {DigitChars[m] : m \in 1..10}
       THEN [ok |-> FALSE, val |-> 0]
       ELSE [ok |-> TRUE, val |-> IF neg THEN -DigitsVal(body, 0) ELSE DigitsVal(body, 0)]

\* values of CF_SETTLE_TIME the batch is started with
SettleEnvChoices == {Unset, SetTo(<<"0">>), SetTo(<<"5">>), SetTo(<<"-", "1">>), SetTo(<<"x">>)}

\* settle_time = int(os.environ.get('CF_SETTLE_TIME', '10'))
SettleValue == IF settleEnv.set THEN ParseInt(settleEnv.val)
               ELSE [ok |-> TRUE, val |-> SettleTime]

\* ---------------- batch machine ----------------
Fixed == <<headers, zoneAcc, op, args, initRecs, settleEnv, pvars, dvars>>
DataVars == <<records, known, nextId>>
PollVars == <<settled, polled, hits, sleepDur>>
CallVars == <<k, auth, zone, rid>>

BatchInit ==
  /\ headers \in HeaderChoices
  /\ zoneAcc \in [Contexts -> SUBSET Zones]
  /\ op \in {"deploy_challenge", "clean_challenge"}
  /\ args \in ArgLists
  /\ records \in InitRecordChoices
  /\ initRecs = records
  /\ known = records
  /\ nextId = 2
  /\ dnsVis \in SUBSET {r.id : r \in records}
  /\ settleEnv \in SettleEnvChoices
  /\ pc = IF op = "deploy_challenge" THEN "begin"
          ELSE IF Len(args) = 0 THEN "done" ELSE "start"
  /\ i = 1 /\ k = 1 /\ auth = "none" /\ zone = <<>> /\ rid = NoneId
  /\ reqs = {} /\ lookups = {} /\ doneOps = {}
  /\ settled = FALSE /\ polled = {} /\ hits = {} /\ sleepDur = 0
  /\ fail = NoFail
  /\ PDefaults /\ DDefaults

AbortBad(kind, st, c) ==
  /\ pc' = IF op = "deploy_challenge" THEN "settle" ELSE "done"
  /\ fail' = [kind |-> kind, status |-> st, ctx |-> c, at |-> i]

\* an exception (raise_for_status, sys.exit(1), get_fld error) ends the process
Abort(kind, st, c) ==
  /\ pc' = "failed"
  /\ fail' = [kind |-> kind, status |-> st, ctx |-> c, at |-> i]

FinishTripleBad ==
  /\ doneOps' = doneOps \cup {i}
  /\ IF op = "deploy_challenge" THEN pc' = "settle" /\ i' = i
     ELSE IF i < NArgs THEN pc' = "start" /\ i' = i + 1
     ELSE pc' = "done" /\ i' = i

\* return from create_txt_record / delete_txt_record: next loop iteration
FinishTriple ==
  /\ doneOps' = doneOps \cup {i}
  /\ IF i < NArgs THEN pc' = "start" /\ i' = i + 1
     ELSE IF op = "deploy_challenge" THEN pc' = "settle" /\ i' = i
     ELSE pc' = "done" /\ i' = i

SkipsTripleBad(d) == FALSE

\* delete_txt_record: "if not domain: return"
SkipsTriple(d) == op = "clean_challenge" /\ d = <<>>

\* entry of create_txt_record(args[i:i+3]) / delete_txt_record(args[i:i+3]);
\* the first thing both do (after delete's "if not domain") is get_fld
StartTriple ==
  /\ pc = "start"
  /\ IF SkipsTriple(Dom(i))
       THEN /\ FinishTriple
            /\ UNCHANGED <<DataVars, CallVars, reqs, lookups, PollVars, fail>>
     ELSE IF ~FldOk(Dom(i))
       THEN /\ Abort("tld", 0, 0)
            /\ UNCHANGED <<DataVars, CallVars, i, reqs, lookups, doneOps, PollVars>>
     ELSE /\ pc' = "zone" /\ k' = 1
          /\ UNCHANGED <<DataVars, auth, zone, rid, i, reqs, lookups, doneOps, PollVars, fail>>
  /\ UNCHANGED <<Fixed, dnsVis>>

\* one iteration of "for auth in CF_HEADERS" in _get_zone_id
ZoneQuery ==
  /\ pc = "zone"
  /\ reqs' = reqs \cup {<<i, "zone">>}
  /\ \E st \in Statuses :
       IF st # 200
         THEN /\ Abort("zoneHttp", st, k)
              /\ UNCHANGED <<CallVars, i, doneOps>>
       ELSE IF ZoneFound(headers[k], Fld(Dom(i)))
         THEN /\ pc' = "lookup" /\ auth' = headers[k] /\ zone' = Fld(Dom(i))
              /\ UNCHANGED <<k, rid, i, doneOps, fail>>
       ELSE IF k < Len(headers)
         THEN /\ k' = k + 1
              /\ UNCHANGED <<pc, auth, zone, rid, i, doneOps, fail>>
       ELSE /\ Abort("zoneNotFound", 200, k)
            /\ UNCHANGED <<CallVars, i, doneOps>>
  /\ UNCHANGED <<Fixed, dnsVis, DataVars, lookups, PollVars>>

\* _get_txt_record_id, then the branch on record_id in the caller
LookupStep ==
  /\ pc = "lookup"
  /\ reqs' = reqs \cup {<<i, "lookup">>}
  /\ \E st \in Statuses :
       IF st # 200
         THEN /\ Abort("lookupHttp", st, 0)
              /\ UNCHANGED <<rid, lookups, i, doneOps>>
       ELSE LET r == Lookup(RecName(Dom(i)), Tok(i)) IN
            /\ rid' = r
            /\ lookups' = lookups \cup {<<i, r>>}
            /\ IF op = "deploy_challenge"
                 THEN IF r # NoneId
                        THEN FinishTriple /\ UNCHANGED fail
                        ELSE pc' = "post" /\ UNCHANGED <<i, doneOps, fail>>
                 ELSE IF r # NoneId
                        THEN pc' = "delete" /\ UNCHANGED <<i, doneOps, fail>>
                        ELSE FinishTriple /\ UNCHANGED fail
  /\ UNCHANGED <<Fixed, dnsVis, DataVars, k, auth, zone, PollVars>>

\* requests.post(dns_records, {type TXT, name, content, ttl 120})
PostStep ==
  /\ pc = "post"
  /\ reqs' = reqs \cup {<<i, "post">>}
  /\ \E st \in Statuses :
       IF st # 200
         THEN /\ Abort("postHttp", st, 0)
              /\ UNCHANGED <<DataVars, i, doneOps>>
       ELSE LET r == [id |-> nextId, name |-> RecName(Dom(i)), content |-> Tok(i)] IN
            /\ records' = records \cup {r}
            /\ known' = known \cup {r}
            /\ nextId' = nextId + 1
            /\ FinishTriple /\ UNCHANGED fail
  /\ UNCHANGED <<Fixed, dnsVis, CallVars, lookups, PollVars>>

\* requests.delete(dns_records/record_id)
DeleteStep ==
  /\ pc = "delete"
  /\ reqs' = reqs \cup {<<i, "delete">>}
  /\ \E st \in Statuses :
       IF st # 200
         THEN /\ Abort("deleteHttp", st, 0)
              /\ UNCHANGED <<records, i, doneOps>>
       ELSE /\ records' = {r \in records : r.id # rid}
            /\ FinishTriple /\ UNCHANGED fail
  /\ UNCHANGED <<Fixed, dnsVis, known, nextId, CallVars, lookups, PollVars>>

\* first line of create_all_txt_records: int() of CF_SETTLE_TIME, which
\* raises ValueError before any request when it is not an integer
ReadSettleTime ==
  /\ pc = "begin"
  /\ IF ~SettleValue.ok
       THEN Abort("settleParse", 0, 0)
       ELSE /\ pc' = IF NArgs >= 1 THEN "start" ELSE "settle"
            /\ UNCHANGED fail
  /\ UNCHANGED <<Fixed, dnsVis, DataVars, CallVars, i, reqs, lookups, doneOps, PollVars>>

\* time.sleep(settle_time), then the polling loop starts at the first triple;
\* a negative settle_time makes time.sleep raise ValueError
Settle ==
  /\ pc = "settle"
  /\ IF SettleValue.val < 0
       THEN /\ Abort("sleepValue", 0, 0)
            /\ UNCHANGED <<i, PollVars>>
       ELSE /\ settled' = TRUE
            /\ sleepDur' = SettleValue.val
            /\ pc' = IF NArgs >= 1 THEN "poll" ELSE "done"
            /\ i' = 1
            /\ UNCHANGED <<polled, hits, fail>>
  /\ UNCHANGED <<Fixed, dnsVis, DataVars, CallVars, reqs, lookups, doneOps>>

\* while(_has_dns_propagated(name, token) == False): the query returned True
PollHit ==
  /\ pc = "poll"
  /\ PropagatedNow(i)
  /\ polled' = polled \cup {i}
  /\ hits' = hits \cup {i}
  /\ IF i < NArgs THEN i' = i + 1 /\ pc' = "poll" ELSE i' = i /\ pc' = "done"
  /\ UNCHANGED <<Fixed, dnsVis, DataVars, CallVars, reqs, lookups, doneOps, settled, sleepDur, fail>>

\* the query returned False: the record is not in the answer, or the
\* resolver raised (timeout and friends), which the function turns into False
PollMiss ==
  /\ pc = "poll"
  /\ \E res \in {Resolve(RecName(Dom(i))), Raised("Timeout")} :
       HasDnsPropagated(res, Tok(i)) = "false"
  /\ polled' = polled \cup {i}
  /\ pc' = "sleep"
  /\ UNCHANGED <<Fixed, dnsVis, DataVars, CallVars, i, reqs, lookups, doneOps, settled, hits, sleepDur, fail>>

\* time.sleep(30)
Sleep30 ==
  /\ pc = "sleep"
  /\ pc' = "poll"
  /\ sleepDur' = PollBackoff
  /\ UNCHANGED <<Fixed, dnsVis, DataVars, CallVars, i, reqs, lookups, doneOps, settled, polled, hits, fail>>

\* environment: a record stored at the provider becomes visible to resolvers
Propagate ==
  /\ \E r \in records : r.id \notin dnsVis /\ dnsVis' = dnsVis \cup {r.id}
  /\ UNCHANGED <<Fixed, DataVars, pc, i, CallVars, reqs, lookups, doneOps, PollVars, fail>>

BatchNext ==
  \/ ReadSettleTime \/ StartTriple \/ ZoneQuery \/ LookupStep \/ PostStep \/ DeleteStep
  \/ Settle \/ PollHit \/ PollMiss \/ Sleep30 \/ Propagate

Spec == BatchInit /\ [][BatchNext]_vars

LiveSpec == Spec /\ WF_vars(ReadSettleTime) /\ WF_vars(StartTriple) /\ WF_vars(ZoneQuery) /\ WF_vars(LookupStep)
                 /\ WF_vars(PostStep) /\ WF_vars(DeleteStep) /\ WF_vars(Settle)
                 /\ WF_vars(PollMiss) /\ WF_vars(Sleep30)
                 /\ SF_vars(PollHit)


\* ---------------- process machine: CF_HEADERS and main() ----------------
Chars == {"a", "b", " "}
StrsUpTo(n) == UNION {[1..m -> Chars] : m \in 0..n}

RECURSIVE SplitAccBad(_, _, _)
SplitAccBad(str, cur, acc) ==
  IF str = <<>> THEN Append(acc, cur)
  ELSE IF Head(str) = " " THEN SplitAccBad(Tail(str), <<>>, Append(acc, cur))
  ELSE SplitAccBad(Tail(str), Append(cur, Head(str)), acc)

SplitBad(str) == IF str = <<>> THEN <<>> ELSE SplitAccBad(str, <<>>, <<>>)

\* str.split(): maximal runs of non-whitespace, in order
RECURSIVE SplitAcc(_, _, _)
SplitAcc(str, cur, acc) ==
  IF str = <<>> THEN (IF cur = <<>> THEN acc ELSE Append(acc, cur))
  ELSE IF Head(str) = " "
       THEN SplitAcc(Tail(str), <<>>, IF cur = <<>> THEN acc ELSE Append(acc, cur))
  ELSE SplitAcc(Tail(str), Append(cur, Head(str)), acc)

Split(str) == SplitAcc(str, <<>>, <<>>)

Bearer(t) == [kind |-> "bearer", tok |-> t, email |-> <<>>, key |-> <<>>]
EmailKey(e, kk) == [kind |-> "emailkey", tok |-> <<>>, email |-> e, key |-> kk]

ZipBad(es, ks) ==
  [n \in 1..(IF Len(es) <= Len(ks) THEN Len(es) ELSE Len(ks)) |-> EmailKey(es[n], ks[Len(ks) + 1 - n])]

\* zip(emails, keys): pairs by position, stops at the shorter list
Zip(es, ks) ==
  [n \in 1..(IF Len(es) <= Len(ks) THEN Len(es) ELSE Len(ks)) |-> EmailKey(es[n], ks[n])]

ChallengeOps == {"deploy_challenge", "clean_challenge"}
Ops == ChallengeOps \cup {"deploy_cert", "unchanged_cert", "invalid_challenge",
                          "startup_hook", "exit_hook"}

HandlerOkBad(o, a) == o = "deploy_cert" => Len(a) = 5

\* the handler returns normally: deploy_cert unpacks exactly six arguments,
\* invalid_challenge reads args[0]; the others ignore their arguments
HandlerOk(o, a) ==
  CASE o = "deploy_cert" -> Len(a) = 6
    [] o = "invalid_challenge" -> Len(a) >= 1
    [] OTHER -> TRUE

BDefaults ==
  /\ headers = <<>> /\ zoneAcc = [c \in Contexts |-> {}] /\ op = "none"
  /\ args = <<>> /\ records = {} /\ initRecs = {} /\ known = {} /\ nextId = 2
  /\ dnsVis = {} /\ pc = "idle" /\ i = 1 /\ k = 1 /\ auth = "none" /\ zone = <<>>
  /\ rid = NoneId /\ reqs = {} /\ lookups = {} /\ doneOps = {}
  /\ settled = FALSE /\ polled = {} /\ hits = {} /\ sleepDur = 0 /\ fail = NoFail
  /\ settleEnv = Unset

\* module-level initialisation of CF_HEADERS (hook.py 21-45)
Load ==
  /\ stage = "load"
  /\ LET hs == IF env.tok.set
                 THEN [n \in 1..Len(Split(env.tok.val)) |-> Bearer(Split(env.tok.val)[n])]
               ELSE IF env.email.set /\ env.key.set
                 THEN Zip(Split(env.email.val), Split(env.key.val))
               ELSE <<>>
     IN /\ cfHeaders' = hs
        /\ IF hs = <<>>
             THEN stage' = "exited" /\ exitCode' = 1 /\ exitAt' = "load"
             ELSE stage' = "loaded" /\ UNCHANGED <<exitCode, exitAt>>
  /\ UNCHANGED <<env, argv, bvars, dvars>>

\* main(argv): ops[argv[0]](argv[1:]) when argv[0] is in the table
Dispatch ==
  /\ stage = "loaded"
  /\ IF argv = <<>>
       THEN stage' = "exited" /\ exitCode' = 1 /\ exitAt' = "main"
     ELSE IF argv[1] \in ChallengeOps
       THEN stage' = "batch" /\ UNCHANGED <<exitCode, exitAt>>
     ELSE IF argv[1] \in Ops
       THEN /\ stage' = "exited" /\ exitAt' = "main"
            /\ exitCode' = IF HandlerOk(argv[1], Tail(argv)) THEN 0 ELSE 1
     ELSE stage' = "exited" /\ exitCode' = 0 /\ exitAt' = "main"
  /\ UNCHANGED <<env, argv, cfHeaders, bvars, dvars>>

ProcNext == Load \/ Dispatch

EnvVar(n) == {Unset} \cup {SetTo(str) : str \in StrsUpTo(n)}

CredInit ==
  /\ env \in [tok : EnvVar(MaxTokLen), email : EnvVar(MaxCredLen), key : EnvVar(MaxCredLen)]
  /\ argv = <<"startup_hook">> /\ cfHeaders = <<>> /\ stage = "load"
  /\ exitCode = 0 /\ exitAt = "none"
  /\ BDefaults /\ DDefaults

CredSpec == CredInit /\ [][ProcNext]_vars

ArgvOps == Ops \cup {"request_failure"}
ArgvChoices == {<<>>} \cup {<<o>> \o [n \in 1..m |-> "x"] : o \in ArgvOps, m \in 0..MaxArgs}
SmallEnvVar == {Unset, SetTo(<<"a">>)}

HookInit ==
  /\ env \in [tok : SmallEnvVar, email : SmallEnvVar, key : SmallEnvVar]
  /\ argv \in ArgvChoices /\ cfHeaders = <<>> /\ stage = "load"
  /\ exitCode = 0 /\ exitAt = "none"
  /\ BDefaults /\ DDefaults

HookSpec == HookInit /\ [][ProcNext]_vars

\* ---------------- resolver machine: _has_dns_propagated ----------------
\* TXT character-strings: "", "a", "b", "\xc3\xa9" (UTF-8 of U+00E9), "\xff" (not UTF-8)
ByteStrs == {<<>>, <<97>>, <<98>>, <<195, 169>>, <<255>>}
QTokens == {<<97>>, <<233>>}
RdataChoices == UNION {[1..m -> ByteStrs] : m \in 1..MaxStrings}
Responses == {Raised(e) : e \in DnsExceptions}
             \cup {Answer(rs) : rs \in UNION {[1..m -> RdataChoices] : m \in 1..MaxRdatas}}

DnsInit ==
  /\ resp \in Responses /\ qtoken \in QTokens /\ qresult = "none"
  /\ BDefaults /\ PDefaults

Query ==
  /\ qresult = "none"
  /\ qresult' = HasDnsPropagated(resp, qtoken)
  /\ UNCHANGED <<resp, qtoken, bvars, pvars>>

DnsSpec == DnsInit /\ [][Query]_vars

\* ---------------- process and resolver claims ----------------
WordStarts(str) == {p \in 1..Len(str) : str[p] # " " /\ (p = 1 \/ str[p - 1] = " ")}
NumWords(str) == Cardinality(WordStarts(str))
\* the n-th maximal run of non-space characters of str
WordAt(str, n) ==
  LET p == CHOOSE p \in WordStarts(str) :
             Cardinality({q \in WordStarts(str) : q <= p}) = n
      e == CHOOSE e \in p..Len(str) :
             (\A r \in p..e : str[r] # " ") /\ (e = Len(str) \/ str[e + 1] = " ")
  IN SubSeq(str, p, e)

\* C9: CF_API_TOKEN set gives exactly its k words as bearer contexts in
\* order (CF_EMAIL/CF_KEY ignored); otherwise the CF_EMAIL and CF_KEY words
\* paired by position; no context at all means exit 1 at load, before main
\* and so before any request.
C9_Credentials ==
  stage # "load" =>
    /\ env.tok.set =>
         /\ Len(cfHeaders) = NumWords(env.tok.val)
         /\ \A n \in 1..Len(cfHeaders) : cfHeaders[n] = Bearer(WordAt(env.tok.val, n))
    /\ (~env.tok.set /\ env.email.set /\ env.key.set) =>
         /\ Len(cfHeaders) = IF NumWords(env.email.val) <= NumWords(env.key.val)
                             THEN NumWords(env.email.val) ELSE NumWords(env.key.val)
         /\ \A n \in 1..Len(cfHeaders) :
              cfHeaders[n] = EmailKey(WordAt(env.email.val, n), WordAt(env.key.val, n))
    /\ (cfHeaders = <<>>) <=> (stage = "exited" /\ exitAt = "load" /\ exitCode = 1)

C9_Witness == stage = "loaded" /\ ~env.tok.set /\ Len(cfHeaders) = 2
              /\ cfHeaders[1].email # cfHeaders[2].email

DocumentedShape(o, a) ==
  /\ o \notin ChallengeOps
  /\ o = "deploy_cert" => Len(a) = 6
  /\ o = "invalid_challenge" => Len(a) >= 1

\* C10 (as amended): a notification operation called with the argument list
\* its caller documents, or an unrecognised operation name, exits 0 from
\* main without reaching the network code, once credentials have loaded (with
\* none the process has already exited 1 at load).
C10_Notifications ==
  /\ (stage = "exited" /\ argv # <<>> /\ DocumentedShape(argv[1], Tail(argv))) =>
       \/ exitAt = "main" /\ exitCode = 0
       \/ exitAt = "load" /\ exitCode = 1 /\ cfHeaders = <<>>
  /\ (argv # <<>> /\ argv[1] \notin ChallengeOps) => stage # "batch"

C10_Witness == stage = "exited" /\ exitAt = "main" /\ argv # <<>>
               /\ argv[1] = "deploy_cert" /\ exitCode = 0

\* C10 as stated: the notification operations and unknown names never fail,
\* whatever their argument list.
C10_Original ==
  (stage = "exited" /\ exitAt = "main" /\ argv # <<>>) => exitCode = 0

AllDec(rds, n) == \A m \in 1..Len(rds[n]) : Utf8Decode(rds[n][m]).ok
Holds(rds, n, t) == \E m \in 1..Len(rds[n]) :
                      Utf8Decode(rds[n][m]).ok /\ Utf8Decode(rds[n][m]).cps = t

Key(j) == <<RecName(Dom(j)), Tok(j)>>
InLoop == pc \in {"poll", "sleep"}
CurVisible == i <= NArgs /\ \E r \in records : r.id \in dnsVis /\ <<r.name, r.content>> = Key(i)

\* C1: in create_all every create_txt_record call returns before the settle
\* sleep, the settle sleep precedes every poll, and domain j is polled only
\* after has_propagated returned True for every earlier domain.
C1_Ordering ==
  /\ settled => (op = "deploy_challenge" /\ doneOps = 1..NArgs)
  /\ polled # {} => settled
  /\ \A j \in polled : \A m \in 1..(j - 1) : m \in hits
  /\ InLoop => \A rq \in reqs : rq[1] \in doneOps

C1_Witness == NArgs = 2 /\ 2 \in polled /\ sleepDur = PollBackoff

\* C2: create_txt_record is idempotent: no two POSTs for one (name, content),
\* at most one record per (name, content), and after a completed call the
\* record exists and exactly one POST or a pre-existing record accounts for it.
C2_Idempotent ==
  /\ \A j1, j2 \in 1..NArgs :
       (j1 # j2 /\ <<j1, "post">> \in reqs /\ <<j2, "post">> \in reqs) => Key(j1) # Key(j2)
  /\ \A r1, r2 \in records : (r1.name = r2.name /\ r1.content = r2.content) => r1 = r2
  /\ op = "deploy_challenge" =>
       \A j \in doneOps :
          /\ \E r \in records : <<r.name, r.content>> = Key(j)
          /\ Cardinality({m \in 1..NArgs : <<m, "post">> \in reqs /\ Key(m) = Key(j)})
             + (IF \E r \in initRecs : <<r.name, r.content>> = Key(j) THEN 1 ELSE 0) = 1

C2_Witness == op = "deploy_challenge" /\ NArgs = 2 /\ Key(1) = Key(2)
              /\ doneOps = {1, 2} /\ <<1, "post">> \in reqs

\* C3 (as amended): _get_zone_id returns the first context, in CF_HEADERS
\* order, whose zone query answers a non-empty result after every earlier one
\* answered an empty result; sys.exit(1) only when all are empty; a non-2xx
\* answer raises at once and ends the invocation.
C3_ZoneOrder ==
  /\ pc \in {"lookup", "post", "delete"} =>
       LET z == Fld(Dom(i)) IN
       /\ zone = z
       /\ \E m \in 1..Len(headers) :
            /\ auth = headers[m] /\ z \in zoneAcc[headers[m]]
            /\ \A m2 \in 1..(m - 1) : z \notin zoneAcc[headers[m2]]
  /\ fail.kind = "zoneNotFound" =>
       \A m \in 1..Len(headers) : Fld(Dom(fail.at)) \notin zoneAcc[headers[m]]
  /\ fail.kind = "zoneHttp" =>
       /\ pc = "failed" /\ fail.status # 200
       /\ \A m \in 1..(fail.ctx - 1) : Fld(Dom(fail.at)) \notin zoneAcc[headers[m]]

C3_Witness == pc = "lookup" /\ auth = "c2"

\* C3 as stated: a failed zone request moves on to the next context
\* instead of ending the invocation.
C3_Original == ~(pc = "failed" /\ fail.kind = "zoneHttp" /\ fail.ctx < Len(headers))

\* C6 (as amended): a lookup returns the id of a record matching name and
\* content, the same id each time, None (leading to a POST) on an empty
\* result, and any non-2xx answer, 404 included, is fatal.
C6_Lookup ==
  /\ \A l \in lookups : l[2] # NoneId =>
       \E r \in known : r.id = l[2] /\ <<r.name, r.content>> = Key(l[1])
  /\ \A l1, l2 \in lookups :
       (Key(l1[1]) = Key(l2[1]) /\ l1[2] # NoneId /\ l2[2] # NoneId) => l1[2] = l2[2]
  /\ pc = "post" => (rid = NoneId /\ ~\E r \in records : <<r.name, r.content>> = Key(i))
  /\ fail.kind = "lookupHttp" => (pc = "failed" /\ fail.status # 200)

C6_Witness == fail.kind = "lookupHttp" /\ fail.status = 404

\* C6 as stated: a 404 answer to a lookup counts as "not found".
C6_Original == ~(fail.kind = "lookupHttp" /\ fail.status = 404)

\* errors raised by create_txt_record / delete_txt_record for one triple
TripleFailKinds == {"tld", "zoneHttp", "zoneNotFound", "lookupHttp", "postHttp", "deleteHttp"}

\* C7: after the first error in the operation for a triple no later triple
\* is touched, create_all never settles or polls, and records created or
\* deleted earlier stay so.

C7_Abort ==
  fail.kind \in TripleFailKinds =>
    /\ \A rq \in reqs : rq[1] <= fail.at
    /\ doneOps = 1..(fail.at - 1)
    /\ ~settled /\ polled = {}
    /\ op = "deploy_challenge" =>
         \A j \in doneOps : \E r \in records : <<r.name, r.content>> = Key(j)
    /\ op = "clean_challenge" =>
         \A j \in doneOps : ~\E r \in records : <<r.name, r.content>> = Key(j)

C7_Witness == fail.kind \in TripleFailKinds /\ fail.at = 2 /\ doneOps = {1} /\ <<1, "lookup">> \in reqs

\* C8: delete_txt_record sends DELETE only for a non-empty domain whose
\* lookup found an id; no record found means no DELETE and no error; an
\* empty domain means no request at all and no error.
C8_Delete ==
  op = "clean_challenge" =>
    /\ \A j \in 1..NArgs : <<j, "delete">> \in reqs =>
         (Dom(j) # <<>> /\ \E l \in lookups : l[1] = j /\ l[2] # NoneId)
    /\ \A j \in 1..NArgs : Dom(j) = <<>> => ~\E rq \in reqs : rq[1] = j
    /\ \A j \in 1..NArgs : <<j, NoneId>> \in lookups =>
         (<<j, "delete">> \notin reqs /\ j \in doneOps)
    /\ \A j \in 1..NArgs : (Dom(j) = <<>> /\ (j < i \/ pc = "done")) => j \in doneOps
    /\ fail # NoFail => Dom(fail.at) # <<>>

C8_Witness == op = "clean_challenge" /\ pc = "done" /\ NArgs = 2
              /\ Dom(1) = <<>> /\ <<2, NoneId>> \in lookups

\* C4: with propagation weakly fair create_all finishes; while the polled
\* domain's record is not visible the loop stays on that domain and never
\* finishes, and every such poll is followed by a 30 s sleep.
C4_Propagation ==
  /\ WF_vars(Propagate) => <>(pc \in {"done", "failed"})
  /\ [][(InLoop /\ ~CurVisible) => (InLoop' /\ i' = i)]_vars
  /\ (pc = "poll" /\ ~CurVisible) ~> (pc = "sleep" \/ CurVisible)

C4_Witness == pc = "done" /\ op = "deploy_challenge" /\ sleepDur = PollBackoff

====
